---------------------------- MODULE Spec2Model ----------------------------
(***************************************************************************)
(* BlinkFill synthesis (src/src/dag.rs): the DAG of substring expression   *)
(* sets built per example, its intersection across examples, and the       *)
(* ranking and extraction of one program.                                  *)
(*                                                                         *)
(* dag.rs is modelled from its source.  Its collaborators (the token       *)
(* vocabulary, the input data graph, the shortest-path search and the      *)
(* program interpreter) live in sibling modules whose source is not part   *)
(* of src/; they are modelled from spec.md sections 4.1, 4.2, 4.6, 4.7.    *)
(*                                                                         *)
(* Tables have one column (ColumnIndex 0).  Strings are sequences of       *)
(* one-character strings.  String indices are 1-based as StringIndex.      *)
(***************************************************************************)
EXTENDS Integers, Sequences, FiniteSets, TLC

\* ------------------------------------------------------------------ bounds
MaxLen == 2
MaxOut == 2
MaxPaired == 2
MaxUnpaired == 1

Alphabet == {"a", "1"}

Strings(n) == UNION {[1..k -> Alphabet] : k \in 0..n}

\* s[l..r) in 1-based StringIndex coordinates: the characters l .. r-1
SubStr(s, l, r) == [i \in 1..(r - l) |-> s[l + i - 1]]

\* &output[i..j] for 0-based byte offsets i <= j
Slice(s, i, j) == [k \in 1..(j - i) |-> s[i + k]]

Min(S) == CHOOSE x \in S : \A y \in S : x <= y
Max(S) == CHOOSE x \in S : \A y \in S : x >= y

\* the function f as an explicit table of its values
Table(f) == f @@ <<>>

\* F applied to the value of v, which is evaluated once
Bind(v, F(_)) == CHOOSE r \in {F(x) : x \in {v}} : TRUE

RECURSIVE SumOver(_, _)
SumOver(S, f) ==
  IF S = {} THEN 0
  ELSE Bind(CHOOSE y \in S : TRUE,
            LAMBDA x : f[x] + Bind(S \ {x}, LAMBDA T : SumOver(T, f)))

\* ------------------------------------------------------- tokens (spec 4.1)
Tok(kind, lit) == [kind |-> kind, lit |-> lit]

Tokens ==
  {Tok(k, <<>>) : k \in {"Start", "End", "Lowercase", "Digits", "Alphanumeric"}}
    \cup {Tok("Literal", <<c>>) : c \in Alphabet}

CharClass(kind) ==
  CASE kind = "Lowercase" -> {"a"}
    [] kind = "Digits" -> {"1"}
    [] kind = "Alphanumeric" -> {"a", "1"}
    [] OTHER -> {}

\* maximal runs of a character class, as (left, right) index pairs
ClassMatches(cls, s) ==
  {m \in (1..Len(s)) \X (2..(Len(s) + 1)) :
     /\ m[1] < m[2]
     /\ \A i \in m[1]..(m[2] - 1) : s[i] \in cls
     /\ (m[1] = 1 \/ s[m[1] - 1] \notin cls)
     /\ (m[2] = Len(s) + 1 \/ s[m[2]] \notin cls)}

LiteralMatches(lit, s) ==
  {m \in (1..Len(s)) \X (2..(Len(s) + 1)) :
     /\ m[2] = m[1] + Len(lit)
     /\ SubStr(s, m[1], m[2]) = lit}

\* all matches of a token in s; left-to-right order is the order of m[1]
AllMatches(tok, s) ==
  CASE tok.kind = "Start" -> {<<1, 1>>}
    [] tok.kind = "End" -> {<<Len(s) + 1, Len(s) + 1>>}
    [] tok.kind = "Literal" -> LiteralMatches(tok.lit, s)
    [] OTHER -> ClassMatches(CharClass(tok.kind), s)

\* the 1-based index of match m among the matches M, from the left
OccIndex(M, m) == Cardinality({x \in M : x[1] < m[1]}) + 1

\* the match that occurrence occ (positive: from the left, negative: from
\* the right) selects, as a set that is empty when there is none
SelectMatch(M, occ) ==
  {m \in M : \/ occ > 0 /\ OccIndex(M, m) = occ
             \/ occ < 0 /\ Cardinality(M) - OccIndex(M, m) + 1 = -occ}

\* ------------------------------------------- input data graph (spec 4.2)
NodeBase == MaxLen + 2

Id(row, col) == <<row, col>>

\* the graph of one string: a node per position, an edge per token match
IDGFromStr(s, id) ==
  Bind(Table([t \in Tokens |-> AllMatches(t, s)]), LAMBDA M :
    [labels |-> [v \in 1..(Len(s) + 1) |-> (id :> v)],
     tokens |-> Table([e \in UNION {M[t] : t \in Tokens} |->
        UNION {LET k == OccIndex(M[t], e)
               IN {<<t, k>>, <<t, -(Cardinality(M[t]) - k + 1)>>}
               : t \in {u \in Tokens : e \in M[u]}}]),
     rows |-> 1])

IDGNumber(n1, n2) == n1 * NodeBase + n2

\* product by node renumbering; edges keep the common (token, occurrence)
IDGIntersection(g1, g2) ==
  LET edgeOf(p) == <<IDGNumber(p[1][1], p[2][1]), IDGNumber(p[1][2], p[2][2])>>
  IN Bind({p \in (DOMAIN g1.tokens) \X (DOMAIN g2.tokens) :
             g1.tokens[p[1]] \cap g2.tokens[p[2]] # {}},
          LAMBDA common :
       Bind({<<p[1][1], p[2][1]>> : p \in common}
              \cup {<<p[1][2], p[2][2]>> : p \in common},
            LAMBDA pairs :
         [labels |-> Table([n \in {IDGNumber(q[1], q[2]) : q \in pairs} |->
                        LET q == CHOOSE x \in pairs : IDGNumber(x[1], x[2]) = n
                        IN g1.labels[q[1]] @@ g2.labels[q[2]]]),
          tokens |-> Table([e \in {edgeOf(p) : p \in common} |->
                        LET p == CHOOSE x \in common : edgeOf(x) = e
                        IN g1.tokens[p[1]] \cap g2.tokens[p[2]]]),
          rows |-> g1.rows + g2.rows]))

RECURSIVE IDGFold(_, _)
IDGFold(strs, k) ==
  IF k = 1 THEN IDGFromStr(strs[1][1], Id(0, 0))
  ELSE Bind(<<IDGFold(strs, k - 1), IDGFromStr(strs[k][1], Id(k - 1, 0))>>,
            LAMBDA g : IDGIntersection(g[1], g[2]))

\* InputDataGraph::new over all rows (each row a sequence of one column)
InputDataGraph_new(strs) == IDGFold(strs, Len(strs))


\* ------------------------------------------------- language (dag.rs 3-6)
\* Position and SubstringExpression of the emitted program
PosConstant(k) == [tag |-> "ConstantPosition", k |-> k]
PosMatch(tok, occ, dir) == [tag |-> "Match", tok |-> tok, occ |-> occ, dir |-> dir]
ExprConstantString(s) == [tag |-> "ConstantString", s |-> s]
ExprSubstring(ci, pl, pr) == [tag |-> "Substring", col |-> ci, pl |-> pl, pr |-> pr]

\* ------------------------------------------------ PositionSet (dag.rs 385)
ConstantPosition(k) == [tag |-> "ConstantPosition", v |-> k]
GraphNode(v) == [tag |-> "GraphNode", v |-> v]

\* --------------------------------------- SubstringExpressionSet (dag.rs 311)
ConstantString(s) == [tag |-> "ConstantString", s |-> s]
SubstringSet(ci, pl, pr) == [tag |-> "SubstringSet", col |-> ci, l |-> pl, r |-> pr]

\* the label of node v for cell id, as a set (empty: labels.get(&id) is None)
LabelGet(graph, v, id) ==
  IF id \in DOMAIN graph.labels[v] THEN {graph.labels[v][id]} ELSE {}

\* a faulty variant: the label of any cell of the node is compared, not the label of id
generate_substring_set_AnyCell(id, l, r, graph) ==
  LET has(w, k) == \E c \in DOMAIN graph.labels[w] : graph.labels[w][c] = k
      v_l == {GraphNode(v) : v \in {w \in DOMAIN graph.labels : has(w, l)}}
      v_r == {GraphNode(v) : v \in {w \in DOMAIN graph.labels :
                                       ~has(w, l) /\ has(w, r)}}
  IN SubstringSet(id[2], v_l \cup {ConstantPosition(l)},
                  v_r \cup {ConstantPosition(r)})

\* a faulty variant: the two constant positions are inserted into the
\* opposite sets
generate_substring_set_SwappedConstants(id, l, r, graph) ==
  LET v_l == {GraphNode(v) : v \in {w \in DOMAIN graph.labels :
                                       LabelGet(graph, w, id) = {l}}}
      v_r == {GraphNode(v) : v \in {w \in DOMAIN graph.labels :
                                       /\ LabelGet(graph, w, id) # {l}
                                       /\ LabelGet(graph, w, id) = {r}}}
  IN SubstringSet(id[2], v_l \cup {ConstantPosition(r)},
                  v_r \cup {ConstantPosition(l)})

generate_substring_set(id, l, r, graph) ==
  LET v_l == {GraphNode(v) : v \in {w \in DOMAIN graph.labels :
                                       LabelGet(graph, w, id) = {l}}}
      v_r == {GraphNode(v) : v \in {w \in DOMAIN graph.labels :
                                       /\ LabelGet(graph, w, id) # {l}
                                       /\ LabelGet(graph, w, id) = {r}}}
  IN SubstringSet(id[2], v_l \cup {ConstantPosition(l)},
                  v_r \cup {ConstantPosition(r)})

PositionSet_denote(p, graph) ==
  IF p.tag = "ConstantPosition" THEN {PosConstant(p.v)}
  ELSE UNION {IF e[1] = p.v
                THEN {PosMatch(x[1], x[2], "Start") : x \in graph.tokens[e]}
              ELSE IF e[2] = p.v
                THEN {PosMatch(x[1], x[2], "End") : x \in graph.tokens[e]}
              ELSE {} : e \in DOMAIN graph.tokens}

denote(es, graph) ==
  IF es.tag = "ConstantString" THEN {ExprConstantString(es.s)}
  ELSE LET ls == UNION {PositionSet_denote(p, graph) : p \in es.l}
           rs == UNION {PositionSet_denote(p, graph) : p \in es.r}
       IN {ExprSubstring(es.col, x[1], x[2]) : x \in ls \X rs}

\* a faulty variant: the right position set of the first operand is kept as it is
ExprSet_intersection_LeftRight(e1, e2) ==
  IF e1.tag = "ConstantString" /\ e2.tag = "ConstantString"
    THEN IF e1.s = e2.s THEN {ConstantString(e1.s)} ELSE {}
  ELSE IF e1.tag = "SubstringSet" /\ e2.tag = "SubstringSet"
    THEN IF e1.col = e2.col /\ e1.l \cap e2.l # {}
           THEN {SubstringSet(e1.col, e1.l \cap e2.l, e1.r)}
         ELSE {}
  ELSE {}

\* a faulty variant: an empty right intersection is not turned into None
ExprSet_intersection_EmptyRight(e1, e2) ==
  IF e1.tag = "ConstantString" /\ e2.tag = "ConstantString"
    THEN IF e1.s = e2.s THEN {ConstantString(e1.s)} ELSE {}
  ELSE IF e1.tag = "SubstringSet" /\ e2.tag = "SubstringSet"
    THEN IF e1.col = e2.col /\ e1.l \cap e2.l # {}
           THEN {SubstringSet(e1.col, e1.l \cap e2.l, e1.r \cap e2.r)}
         ELSE {}
  ELSE {}

\* a faulty variant: the position sets are united, not intersected
ExprSet_intersection_Union(e1, e2) ==
  IF e1.tag = "ConstantString" /\ e2.tag = "ConstantString"
    THEN IF e1.s = e2.s THEN {ConstantString(e1.s)} ELSE {}
  ELSE IF e1.tag = "SubstringSet" /\ e2.tag = "SubstringSet"
    THEN IF e1.col = e2.col
           THEN {SubstringSet(e1.col, e1.l \cup e2.l, e1.r \cup e2.r)}
         ELSE {}
  ELSE {}

\* SubstringExpressionSet::intersection; Option as a set of at most one
ExprSet_intersection(e1, e2) ==
  IF e1.tag = "ConstantString" /\ e2.tag = "ConstantString"
    THEN IF e1.s = e2.s THEN {ConstantString(e1.s)} ELSE {}
  ELSE IF e1.tag = "SubstringSet" /\ e2.tag = "SubstringSet"
    THEN IF e1.col = e2.col
           THEN LET p_l == e1.l \cap e2.l
                    p_r == e1.r \cap e2.r
                IN IF p_l = {} THEN {}
                   ELSE IF p_r = {} THEN {}
                   ELSE {SubstringSet(e1.col, p_l, p_r)}
         ELSE {}
  ELSE {}

\* ------------------------------------------------------ Dag (dag.rs 17)
\* input_str[offset..].find(s): the least 0-based start of s at or after
\* offset, as a set (empty: None)
Find(input_str, s, offset) ==
  LET hits == {p \in offset..(Len(input_str) - Len(s)) :
                 Slice(input_str, p, p + Len(s)) = s}
  IN IF hits = {} THEN {} ELSE {Min(hits)}

\* the while loop of Dag::new over one column: one SubstringSet per
\* occurrence of s, overlapping ones included, left to right
RECURSIVE ColumnExprs(_, _, _, _, _)
ColumnExprs(input_str, s, offset, id, graph) ==
  IF offset < Len(input_str)
    THEN LET f == Find(input_str, s, offset)
         IN IF f = {} THEN <<>>
            ELSE LET start == CHOOSE x \in f : TRUE
                     l == start
                     r == l + Len(s)
                 IN <<generate_substring_set(id, l + 1, r + 1, graph)>>
                      \o ColumnExprs(input_str, s, start + 1, id, graph)
  ELSE <<>>

RECURSIVE RowExprs(_, _, _, _, _)
RowExprs(input, s, ci, row, graph) ==
  IF ci >= Len(input) THEN <<>>
  ELSE ColumnExprs(input[ci + 1], s, 0, Id(row, ci), graph)
         \o RowExprs(input, s, ci + 1, row, graph)

\* a faulty variant: the constant string is learned only when the substring occurs
\* in no column
Dag_new_ConstantIfAbsent(input, output, graph, row) ==
  LET n == Len(output)
      es == {e \in (0..n) \X (0..n) : e[1] < e[2]}
  IN [start |-> 0,
      finish |-> n,
      substrings |-> [e \in es |->
         LET found == RowExprs(input, Slice(output, e[1], e[2]), 0, row, graph)
         IN IF found = <<>>
              THEN <<ConstantString(Slice(output, e[1], e[2]))>>
            ELSE found]]

Dag_new(input, output, graph, row) ==
  LET n == Len(output)
      es == {e \in (0..n) \X (0..n) : e[1] < e[2]}
  IN [start |-> 0,
      finish |-> n,
      substrings |-> Table([e \in es |->
         <<ConstantString(Slice(output, e[1], e[2]))>>
           \o RowExprs(input, Slice(output, e[1], e[2]), 0, row, graph)])]

Dag_edges(dag) == DOMAIN dag.substrings

Dag_nodes(dag) == {e[1] : e \in Dag_edges(dag)} \cup {e[2] : e \in Dag_edges(dag)}

\* HashMap iteration order is not specified: it is an input of the
\* operations that iterate, drawn from Orders
Orders == {"asc", "desc"}

RECURSIVE SetToSeq(_, _, _)
SetToSeq(S, key(_), ord) ==
  IF S = {} THEN <<>>
  ELSE Bind(IF ord = "asc"
              THEN CHOOSE y \in S : \A z \in S : key(y) <= key(z)
            ELSE CHOOSE y \in S : \A z \in S : key(y) >= key(z),
            LAMBDA x : <<x>> \o Bind(S \ {x}, LAMBDA T : SetToSeq(T, key, ord)))

EdgeSeq(dag, ord) ==
  LET big == Max(Dag_nodes(dag) \cup {0}) + 1
      key(e) == e[1] * big + e[2]
  IN SetToSeq(Dag_edges(dag), key, ord)

\* a faulty variant: the number of (n1, n2) is computed from the pair, not drawn fresh
Dag_number_Sum(acc, n1, n2) ==
  IF <<n1, n2>> \in DOMAIN acc.renumber THEN acc
  ELSE [acc EXCEPT !.renumber = (<<n1, n2>> :> n1 + n2) @@ acc.renumber,
                   !.curr = acc.curr + 1]

\* the closure `number` of Dag::intersection: the number of (n1, n2), a
\* fresh one (curr) on its first use
Dag_number(acc, n1, n2) ==
  IF <<n1, n2>> \in DOMAIN acc.renumber THEN acc
  ELSE [acc EXCEPT !.renumber = (<<n1, n2>> :> acc.curr) @@ acc.renumber,
                   !.curr = acc.curr + 1]

\* the two inner loops over e1 in s1, e2 in s2, keeping the non-empty
\* intersections in that order
RECURSIVE CrossExprs(_, _, _)
CrossExprs(s1, s2, k) ==
  IF k > Len(s1) * Len(s2) THEN <<>>
  ELSE LET i == ((k - 1) \div Len(s2)) + 1
           j == ((k - 1) % Len(s2)) + 1
           e == ExprSet_intersection(s1[i], s2[j])
       IN (IF e = {} THEN <<>> ELSE <<CHOOSE x \in e : TRUE>>)
            \o CrossExprs(s1, s2, k + 1)

\* one iteration of the loop body for the edge pair (e1, e2)
Dag_intersection_step(acc, self, other, e1, e2) ==
  Bind(Dag_number(acc, e1[1], e2[1]), LAMBDA a1 :
    Bind(Dag_number(a1, e1[2], e2[2]), LAMBDA a2 :
      Bind(CrossExprs(self.substrings[e1], other.substrings[e2], 1),
           LAMBDA exprs :
        LET vs == a1.renumber[<<e1[1], e2[1]>>]
            vf == a2.renumber[<<e1[2], e2[2]>>]
        IN IF exprs # <<>>
             THEN [a2 EXCEPT !.substrings =
                               (<<vs, vf>> :> exprs) @@ a2.substrings]
           ELSE a2)))

RECURSIVE Dag_intersection_loop(_, _, _, _, _, _)
Dag_intersection_loop(acc, self, other, es1, es2, k) ==
  IF k > Len(es1) * Len(es2) THEN acc
  ELSE LET i == ((k - 1) \div Len(es2)) + 1
           j == ((k - 1) % Len(es2)) + 1
       IN Bind(Dag_intersection_step(acc, self, other, es1[i], es2[j]),
               LAMBDA a : Dag_intersection_loop(a, self, other, es1, es2, k + 1))

\* Dag::intersection, with the renumbering table kept beside the result
Dag_intersection_full(self, other, ord) ==
  LET acc0 == [renumber |-> <<>>, curr |-> 0, substrings |-> <<>>]
  IN Bind(<<EdgeSeq(self, ord), EdgeSeq(other, ord)>>, LAMBDA es :
       Bind(Dag_intersection_loop(acc0, self, other, es[1], es[2], 1),
            LAMBDA acc1 :
         Bind(Dag_number(acc1, self.start, other.start), LAMBDA acc2 :
           Bind(Dag_number(acc2, self.finish, other.finish), LAMBDA acc3 :
             [dag |-> [start |-> acc2.renumber[<<self.start, other.start>>],
                       finish |-> acc3.renumber[<<self.finish, other.finish>>],
                       substrings |-> acc3.substrings],
              renumber |-> acc3.renumber]))))

Dag_intersection(self, other, ord) == Dag_intersection_full(self, other, ord).dag

\* ------------------------------------------- ranking inputs (spec 4.6)
Abs(x) == IF x < 0 THEN -x ELSE x

\* graph.distances(): per edge, the average absolute label difference
IDG_distances(graph) ==
  Table([e \in DOMAIN graph.tokens |->
     LET ids == DOMAIN graph.labels[e[1]]
     IN SumOver(ids, [id \in ids |->
                        Abs(graph.labels[e[2]][id] - graph.labels[e[1]][id])])
          \div Cardinality(ids)])

\* graph.rank_nodes(): per node, the sum over (in-edge, out-edge) pairs of
\* the product of their weights, weight = token count * distance
IDG_rank_nodes(graph, distances) ==
  Bind(Table([e \in DOMAIN graph.tokens |->
                Cardinality(graph.tokens[e]) * distances[e]]), LAMBDA w :
    Table([v \in DOMAIN graph.labels |->
        LET ins == {e \in DOMAIN graph.tokens : e[2] = v}
            outs == {e \in DOMAIN graph.tokens : e[1] = v}
        IN SumOver(ins \X outs, [p \in ins \X outs |-> w[p[1]] * w[p[2]]])]))

\* ------------------------------------------- top_ranked_expression
EPSILON == 1
KAPPA == 15

\* a total order on the members of a position set, and on (token,
\* occurrence) pairs, to resolve an iteration order
PosCode(p) == IF p.tag = "ConstantPosition" THEN -p.v ELSE p.v

TokIndex(tok) ==
  CASE tok.kind = "Start" -> 0
    [] tok.kind = "End" -> 1
    [] tok.kind = "Lowercase" -> 2
    [] tok.kind = "Digits" -> 3
    [] tok.kind = "Alphanumeric" -> 4
    [] tok.kind = "Literal" /\ tok.lit = <<"a">> -> 5
    [] OTHER -> 6

TokOccCode(x) == TokIndex(x[1]) * (2 * NodeBase + 1) + x[2] + NodeBase

PickBy(S, code(_), ord) ==
  IF ord = "asc" THEN CHOOSE y \in S : \A z \in S : code(y) <= code(z)
  ELSE CHOOSE y \in S : \A z \in S : code(y) >= code(z)

\* the closure `key`
RankKey(p, ranks) == IF p.tag = "ConstantPosition" THEN 0 ELSE ranks[p.v]

\* p.iter().max_by_key(key): one of the members of maximal key
MaxByKey(ps, ranks, ord) ==
  LET top == {p \in ps : \A q \in ps : RankKey(q, ranks) <= RankKey(p, ranks)}
  IN PickBy(top, PosCode, ord)

\* a faulty variant: the out-edges are checked before the in-edges
Sample_OutEdgeFirst(p, graph, ord) ==
  IF p.tag = "ConstantPosition" THEN PosConstant(p.v)
  ELSE LET ins == UNION {{<<e[1], x>> : x \in graph.tokens[e]} :
                           e \in {f \in DOMAIN graph.tokens : f[2] = p.v}}
           outs == UNION {{<<e[2], x>> : x \in graph.tokens[e]} :
                            e \in {f \in DOMAIN graph.tokens : f[1] = p.v}}
           code(c) == c[1] * (7 * (2 * NodeBase + 1)) + TokOccCode(c[2])
       IN IF outs # {}
            THEN LET c == PickBy(outs, code, ord)
                 IN PosMatch(c[2][1], c[2][2], "Start")
          ELSE IF ins # {}
            THEN LET c == PickBy(ins, code, ord)
                 IN PosMatch(c[2][1], c[2][2], "End")
          ELSE [tag |-> "Panic"]

\* a faulty variant: an in-edge's token is returned as its Start
Sample_InEdgeAsStart(p, graph, ord) ==
  IF p.tag = "ConstantPosition" THEN PosConstant(p.v)
  ELSE LET ins == UNION {{<<e[1], x>> : x \in graph.tokens[e]} :
                           e \in {f \in DOMAIN graph.tokens : f[2] = p.v}}
           outs == UNION {{<<e[2], x>> : x \in graph.tokens[e]} :
                            e \in {f \in DOMAIN graph.tokens : f[1] = p.v}}
           code(c) == c[1] * (7 * (2 * NodeBase + 1)) + TokOccCode(c[2])
       IN IF ins # {}
            THEN LET c == PickBy(ins, code, ord)
                 IN PosMatch(c[2][1], c[2][2], "Start")
          ELSE IF outs # {}
            THEN LET c == PickBy(outs, code, ord)
                 IN PosMatch(c[2][1], c[2][2], "Start")
          ELSE [tag |-> "Panic"]

\* the closure `sample`: a token of an in-edge as its End, else a token of
\* an out-edge as its Start, else the panic
Sample(p, graph, ord) ==
  IF p.tag = "ConstantPosition" THEN PosConstant(p.v)
  ELSE LET ins == UNION {{<<e[1], x>> : x \in graph.tokens[e]} :
                           e \in {f \in DOMAIN graph.tokens : f[2] = p.v}}
           outs == UNION {{<<e[2], x>> : x \in graph.tokens[e]} :
                            e \in {f \in DOMAIN graph.tokens : f[1] = p.v}}
           code(c) == c[1] * (7 * (2 * NodeBase + 1)) + TokOccCode(c[2])
       IN IF ins # {}
            THEN LET c == PickBy(ins, code, ord)
                 IN PosMatch(c[2][1], c[2][2], "End")
          ELSE IF outs # {}
            THEN LET c == PickBy(outs, code, ord)
                 IN PosMatch(c[2][1], c[2][2], "Start")
          ELSE [tag |-> "Panic"]

\* lines 226-273: the expected length of the chosen (p_l, p_r), and whether
\* some row gives a non-positive difference
\* a faulty variant: a difference of zero does not mark the candidate bad
LenBad_ZeroAllowed(p_l, p_r, graph) ==
  LET rows == graph.rows
      diffs ==
        IF p_l.tag = "ConstantPosition" /\ p_r.tag = "GraphNode"
          THEN [id \in DOMAIN graph.labels[p_r.v] |->
                  graph.labels[p_r.v][id] - p_l.v]
        ELSE IF p_l.tag = "GraphNode" /\ p_r.tag = "ConstantPosition"
          THEN [id \in DOMAIN graph.labels[p_l.v] |->
                  p_r.v - graph.labels[p_l.v][id]]
        ELSE IF p_l.tag = "GraphNode" /\ p_r.tag = "GraphNode"
          THEN [id \in DOMAIN graph.labels[p_l.v] |->
                  graph.labels[p_r.v][id] - graph.labels[p_l.v][id]]
        ELSE <<>>
  IN IF p_l.tag = "ConstantPosition" /\ p_r.tag = "ConstantPosition"
       THEN [len |-> p_r.v - p_l.v, bad |-> FALSE]
     ELSE IF \E id \in DOMAIN diffs : diffs[id] < 0
       THEN [len |-> 0, bad |-> TRUE]
     ELSE [len |-> SumOver(DOMAIN diffs, diffs) \div rows, bad |-> FALSE]

LenBad(p_l, p_r, graph) ==
  LET rows == graph.rows
      diffs ==
        IF p_l.tag = "ConstantPosition" /\ p_r.tag = "GraphNode"
          THEN [id \in DOMAIN graph.labels[p_r.v] |->
                  graph.labels[p_r.v][id] - p_l.v]
        ELSE IF p_l.tag = "GraphNode" /\ p_r.tag = "ConstantPosition"
          THEN [id \in DOMAIN graph.labels[p_l.v] |->
                  p_r.v - graph.labels[p_l.v][id]]
        ELSE IF p_l.tag = "GraphNode" /\ p_r.tag = "GraphNode"
          THEN [id \in DOMAIN graph.labels[p_l.v] |->
                  graph.labels[p_r.v][id] - graph.labels[p_l.v][id]]
        ELSE <<>>
  IN IF p_l.tag = "ConstantPosition" /\ p_r.tag = "ConstantPosition"
       THEN [len |-> p_r.v - p_l.v, bad |-> FALSE]
     ELSE IF \E id \in DOMAIN diffs : diffs[id] <= 0
       THEN [len |-> 0, bad |-> TRUE]
     ELSE [len |-> SumOver(DOMAIN diffs, diffs) \div rows, bad |-> FALSE]

\* lines 161-285: the expression and the score of one candidate; expr is a
\* set of at most one (None: a discarded candidate)
Candidate(expr_set, graph, ranks, ord) ==
  IF expr_set.tag = "ConstantString"
    THEN [expr |-> {ExprConstantString(expr_set.s)},
          score |-> Len(expr_set.s) * Len(expr_set.s) * EPSILON]
  ELSE Bind(MaxByKey(expr_set.l, ranks, ord), LAMBDA p_l :
         Bind(MaxByKey(expr_set.r, ranks, ord), LAMBDA p_r :
           Bind(LenBad(p_l, p_r, graph), LAMBDA lb :
             [expr |-> IF ~lb.bad
                         THEN {ExprSubstring(expr_set.col,
                                             Sample(p_l, graph, ord),
                                             Sample(p_r, graph, ord))}
                       ELSE {},
              score |-> lb.len * lb.len * KAPPA])))

\* a faulty variant: a discarded candidate clears the best found so far
RECURSIVE BestOf_DiscardClears(_, _, _, _, _, _)
BestOf_DiscardClears(expr_set_set, k, best, graph, ranks, ord) ==
  IF k > Len(expr_set_set) THEN best
  ELSE Bind(Candidate(expr_set_set[k], graph, ranks, ord), LAMBDA c :
         Bind(IF c.expr = {} THEN [expr |-> {}, score |-> 0]
              ELSE IF best.expr = {} \/ c.score > best.score THEN c
              ELSE best,
              LAMBDA next :
                BestOf_DiscardClears(expr_set_set, k + 1, next, graph, ranks, ord)))

\* lines 156-292: the loop over the candidates of one edge
RECURSIVE BestOf(_, _, _, _, _, _)
BestOf(expr_set_set, k, best, graph, ranks, ord) ==
  IF k > Len(expr_set_set) THEN best
  ELSE Bind(Candidate(expr_set_set[k], graph, ranks, ord), LAMBDA c :
         Bind(IF c.expr # {} /\ (best.expr = {} \/ c.score > best.score)
                THEN c
              ELSE best,
              LAMBDA next : BestOf(expr_set_set, k + 1, next, graph, ranks, ord)))

\* lines 155-296: best_by_edge, a map from the edges that have a valid
\* candidate to (best_score, best)
BestByEdge(dag, graph, ord) ==
  Bind(IDG_rank_nodes(graph, IDG_distances(graph)), LAMBDA ranks :
    Bind(Table([e \in Dag_edges(dag) |->
                  BestOf(dag.substrings[e], 1, [expr |-> {}, score |-> 0],
                         graph, ranks, ord)]),
         LAMBDA all :
      Table([e \in {f \in Dag_edges(dag) : all[f].expr # {}} |->
         [score |-> all[e].score, expr |-> CHOOSE x \in all[e].expr : TRUE]])))

\* graph::shortest_path_dag over the edges of best_by_edge (spec 4.6): the
\* start-to-finish paths, as sequences of edges
RECURSIVE PathsFrom(_, _, _)
PathsFrom(v, finish, es) ==
  IF v = finish THEN {<<>>}
  ELSE UNION {{<<e>> \o p : p \in PathsFrom(e[2], finish, es \ {e})} :
                e \in {f \in es : f[1] = v}}

RECURSIVE PathScore(_, _)
PathScore(path, best_by_edge) ==
  IF path = <<>> THEN 0
  ELSE best_by_edge[Head(path)].score + PathScore(Tail(path), best_by_edge)

\* a path of maximal total score, as a set (empty: no path)
ShortestPathDag(start, finish, best_by_edge, ord) ==
  LET ps == PathsFrom(start, finish, DOMAIN best_by_edge)
      top == {p \in ps : \A q \in ps :
                PathScore(q, best_by_edge) <= PathScore(p, best_by_edge)}
  IN IF ps = {} THEN {} ELSE {PickBy(top, Len, ord)}

\* a faulty variant: the scores are not negated, so the path of least total
\* score is taken
ProgramOf_NotNegated(dag, best_by_edge, ord) ==
  LET ps == PathsFrom(dag.start, dag.finish, DOMAIN best_by_edge)
      low == {p \in ps : \A q \in ps :
                PathScore(p, best_by_edge) <= PathScore(q, best_by_edge)}
  IN IF ps = {} THEN {}
     ELSE {[k \in 1..Len(p) |-> best_by_edge[p[k]].expr] : p \in {PickBy(low, Len, ord)}}

\* a faulty variant: only the direct edge from start to finish is taken for a path
ProgramOf_DirectEdge(dag, best_by_edge, ord) ==
  IF dag.start = dag.finish THEN {<<>>}
  ELSE IF <<dag.start, dag.finish>> \in DOMAIN best_by_edge
    THEN {<<best_by_edge[<<dag.start, dag.finish>>].expr>>}
  ELSE {}

\* lines 297-308: the program along the chosen path; a set of at most one
\* (None: no path)
ProgramOf(dag, best_by_edge, ord) ==
  LET path == ShortestPathDag(dag.start, dag.finish, best_by_edge, ord)
  IN {[k \in 1..Len(p) |-> best_by_edge[p[k]].expr] : p \in path}

\* ------------------------------------------ program execution (spec 4.7)
\* the index a Position evaluates to in s, as a set (empty: failure)
EvalPosition(p, s) ==
  IF p.tag = "ConstantPosition"
    THEN IF 1 <= p.k /\ p.k <= Len(s) + 1 THEN {p.k} ELSE {}
  ELSE IF p.tag = "Match"
    THEN {IF p.dir = "Start" THEN m[1] ELSE m[2] :
            m \in SelectMatch(AllMatches(p.tok, s), p.occ)}
  ELSE {}

Failed == [ok |-> FALSE, val |-> <<>>]
Ran(val) == [ok |-> TRUE, val |-> val]

RunExpr(e, row) ==
  IF e.tag = "ConstantString" THEN Ran(e.s)
  ELSE IF e.col + 1 > Len(row) THEN Failed
  ELSE LET s == row[e.col + 1]
           l == EvalPosition(e.pl, s)
           r == EvalPosition(e.pr, s)
       IN IF l = {} \/ r = {} THEN Failed
          ELSE LET li == CHOOSE x \in l : TRUE
                   ri == CHOOSE x \in r : TRUE
               IN IF li > ri THEN Failed ELSE Ran(SubStr(s, li, ri))

RECURSIVE RunProgram(_, _)
RunProgram(prog, row) ==
  IF prog = <<>> THEN Ran(<<>>)
  ELSE Bind(RunExpr(Head(prog), row), LAMBDA h :
         Bind(RunProgram(Tail(prog), row), LAMBDA t :
           IF h.ok /\ t.ok THEN Ran(h.val \o t.val) ELSE Failed))

\* ----------------------------------------------------- the synthesis run
VARIABLES
  paired,        \* the examples: <<[input, output], ...>>, non-empty
  unpaired,      \* the rows without an output
  pc,            \* the position in learn_program_full
  graph,         \* the InputDataGraph over paired inputs, then unpaired rows
  learned,       \* the number of examples folded into dag
  dag,           \* the accumulator of the fold in Dag::learn
  prev,          \* the accumulator before the last intersection
  last,          \* the per-example DAG of the last Dag::new
  renumber,      \* the renumbering table of the last intersection
  order,         \* the iteration order top_ranked_expression met
  best_by_edge,  \* best_by_edge of top_ranked_expression
  result,        \* what top_ranked_expression returned: {} is None
  ran,           \* the program's result on each row of the table
  args,          \* the operands of the intersection algebra (SpecAlg)
  res            \* the intersections of the operands (SpecAlg)

vars == <<paired, unpaired, pc, graph, learned, dag, prev, last, renumber,
          order, best_by_edge, result, ran, args, res>>

Rows == {<<s>> : s \in Strings(MaxLen)}
Examples == [input : Rows, output : Strings(MaxOut)]

SeqsOf(S, lo, hi) == UNION {[1..k -> S] : k \in lo..hi}

\* all_unpaired of learn_program_full: paired inputs, then unpaired rows
AllRows == [k \in 1..Len(paired) |-> paired[k].input] \o unpaired

NoGraph == [labels |-> <<>>, tokens |-> <<>>, rows |-> 0]
NoDag == [start |-> 0, finish |-> 0, substrings |-> <<>>]

Init ==
  /\ paired \in SeqsOf(Examples, 1, MaxPaired)
  /\ unpaired \in SeqsOf(Rows, 0, MaxUnpaired)
  /\ pc = "start"
  /\ graph = NoGraph
  /\ learned = 0
  /\ dag = NoDag
  /\ prev = NoDag
  /\ last = NoDag
  /\ renumber = <<>>
  /\ order = "none"
  /\ best_by_edge = <<>>
  /\ result = {}
  /\ ran = <<>>
  /\ args = <<>>
  /\ res = <<>>

\* learn_program_full, lines 123-129
BuildGraph ==
  /\ pc = "start"
  /\ \E rows \in {AllRows} : graph' = InputDataGraph_new(rows)
  /\ pc' = "learn"
  /\ UNCHANGED <<paired, unpaired, learned, dag, prev, last, renumber, order,
                 best_by_edge, result, ran, args, res>>

\* Dag::learn, the first example: the fold's None arm
LearnFirst ==
  /\ pc = "learn"
  /\ learned = 0
  /\ \E x \in {Dag_new(paired[1].input, paired[1].output, graph, 0)} :
       /\ dag' = x
       /\ last' = x
  /\ learned' = 1
  /\ pc' = IF Len(paired) = 1 THEN "learned" ELSE "learn"
  /\ UNCHANGED <<paired, unpaired, graph, prev, renumber, order, best_by_edge,
                 result, ran, args, res>>

\* Dag::learn, a further example: the fold's Some arm
LearnNext ==
  /\ pc = "learn"
  /\ learned >= 1
  /\ \E ord \in Orders,
        x \in {Dag_new(paired[learned + 1].input, paired[learned + 1].output,
                       graph, learned)} :
       \E full \in {Dag_intersection_full(dag, x, ord)} :
         /\ prev' = dag
         /\ last' = x
         /\ dag' = full.dag
         /\ renumber' = full.renumber
  /\ learned' = learned + 1
  /\ pc' = IF Len(paired) = learned + 1 THEN "learned" ELSE "learn"
  /\ UNCHANGED <<paired, unpaired, graph, order, best_by_edge, result, ran,
                 args, res>>

\* top_ranked_expression, lines 147-308
TopRanked ==
  /\ pc = "learned"
  /\ \E ord \in Orders :
       \E best \in {BestByEdge(dag, graph, ord)} :
         /\ order' = ord
         /\ best_by_edge' = best
         /\ result' = ProgramOf(dag, best, ord)
  /\ pc' = "ranked"
  /\ UNCHANGED <<paired, unpaired, graph, learned, dag, prev, last, renumber,
                 ran, args, res>>

\* StringProgram::run of the returned program on every row of the table
Run ==
  /\ pc = "ranked"
  /\ result # {}
  /\ \E prog \in result, rows \in {AllRows} :
       ran' = [k \in 1..Len(rows) |-> RunProgram(prog, rows[k])]
  /\ pc' = "done"
  /\ UNCHANGED <<paired, unpaired, graph, learned, dag, prev, last, renumber,
                 order, best_by_edge, result, args, res>>

Next == BuildGraph \/ LearnFirst \/ LearnNext \/ TopRanked \/ Run

Spec == Init /\ [][Next]_vars

\* ------------------------------------------- the intersection algebra
\* Operands of SubstringExpressionSet::intersection: both kinds, two
\* columns, every non-empty choice of left and right position sets
AlgPositions == {ConstantPosition(1), GraphNode(1)}
AlgPositionSets == (SUBSET AlgPositions) \ {{}}
AlgExprSets ==
  {ConstantString(<<c>>) : c \in Alphabet}
    \cup {SubstringSet(x[1], x[2], x[3]) :
            x \in {0, 1} \X AlgPositionSets \X AlgPositionSets}

\* Operands of Dag::intersection: three DAGs of Dag::new over the graph of
\* one table of two rows, A and C on row 0 and B on row 1
AlgTables == {<<<<s>>, <<u>>>> : s \in Strings(MaxLen) \ Strings(MaxLen - 1),
                                 u \in Strings(MaxLen) \ Strings(MaxLen - 1)}

\* Option-lifted intersection: None absorbs
OptIntersection(x, y) ==
  IF x = {} \/ y = {} THEN {}
  ELSE ExprSet_intersection(CHOOSE a \in x : TRUE, CHOOSE b \in y : TRUE)

AlgInitRest ==
  /\ paired = <<>>
  /\ unpaired = <<>>
  /\ graph = NoGraph
  /\ learned = 0
  /\ dag = NoDag
  /\ prev = NoDag
  /\ last = NoDag
  /\ renumber = <<>>
  /\ order = "none"
  /\ best_by_edge = <<>>
  /\ result = {}
  /\ ran = <<>>
  /\ res = <<>>

AlgInit ==
  /\ \/ /\ pc = "exprs"
        /\ args \in [e1 : AlgExprSets, e2 : AlgExprSets, e3 : AlgExprSets]
     \/ /\ pc = "dags"
        /\ args \in [rows : AlgTables, outs : [1..3 -> Strings(MaxOut)]]
  /\ AlgInitRest

\* SubstringExpressionSet::intersection applied both ways and both
\* bracketings
IntersectExprs ==
  /\ pc = "exprs"
  /\ res' = [e12 |-> ExprSet_intersection(args.e1, args.e2),
             e21 |-> ExprSet_intersection(args.e2, args.e1),
             e12_3 |-> OptIntersection(
                         ExprSet_intersection(args.e1, args.e2), {args.e3}),
             e1_23 |-> OptIntersection(
                         {args.e1}, ExprSet_intersection(args.e2, args.e3))]
  /\ pc' = "exprs_done"
  /\ UNCHANGED <<paired, unpaired, graph, learned, dag, prev, last, renumber,
                 order, best_by_edge, result, ran, args>>

\* Dag::intersection applied both ways and both bracketings to the DAGs of
\* three examples over one graph
IntersectDags ==
  /\ pc = "dags"
  /\ \E ord \in Orders, g \in {InputDataGraph_new(args.rows)} :
       \E a \in {Dag_new(args.rows[1], args.outs[1], g, 0)},
          b \in {Dag_new(args.rows[2], args.outs[2], g, 1)},
          c \in {Dag_new(args.rows[1], args.outs[3], g, 0)} :
         \E ab \in {Dag_intersection_full(a, b, ord)},
            ba \in {Dag_intersection_full(b, a, ord)},
            bc \in {Dag_intersection_full(b, c, ord)} :
           /\ graph' = g
           /\ res' = [a |-> a, b |-> b, c |-> c, ab |-> ab, ba |-> ba,
                      bc |-> bc,
                      ab_c |-> Dag_intersection_full(ab.dag, c, ord),
                      a_bc |-> Dag_intersection_full(a, bc.dag, ord)]
  /\ pc' = "dags_done"
  /\ UNCHANGED <<paired, unpaired, learned, dag, prev, last, renumber, order,
                 best_by_edge, result, ran, args>>

AlgNext == IntersectExprs \/ IntersectDags

SpecAlg == AlgInit /\ [][AlgNext]_vars

\* ------------------------------------------------------------ properties
\* the nodes reachable from v over the edges es
RECURSIVE ReachableFrom(_, _)
ReachableFrom(seen, es) ==
  Bind(seen \cup {e[2] : e \in {f \in es : f[1] \in seen}}, LAMBDA more :
    IF more = seen THEN seen ELSE ReachableFrom(more, es))

\* every expression an edge of d denotes
EdgeExprs(d, e, g) ==
  UNION {denote(d.substrings[e][k], g) : k \in 1..Len(d.substrings[e])}

\* what the expressions of an edge evaluate to on a row
EdgeVals(d, e, g, row) == {RunExpr(x, row) : x \in EdgeExprs(d, e, g)}

\* what the programs along a path evaluate to on a row: one expression of
\* each edge, concatenated
RECURSIVE PathVals(_, _, _, _)
PathVals(d, path, g, row) ==
  IF path = <<>> THEN {Ran(<<>>)}
  ELSE {IF x[1].ok /\ x[2].ok THEN Ran(x[1].val \o x[2].val) ELSE Failed :
          x \in EdgeVals(d, Head(path), g, row) \X PathVals(d, Tail(path), g, row)}

\* C1: when synthesis returns a program, running it on the input of each
\* paired example returns exactly that example's expected output
C1_PairedOutputsReproduced ==
  pc = "done" =>
    \A k \in 1..Len(paired) : ran[k] = Ran(paired[k].output)

\* a program with a token-anchored substring was learned from two examples
\* with different outputs and run
C1_Witness ==
  /\ pc = "done"
  /\ Len(paired) = 2
  /\ paired[1].output # paired[2].output
  /\ \E prog \in result : \E k \in 1..Len(prog) :
       /\ prog[k].tag = "Substring"
       /\ prog[k].pl.tag = "Match"
       /\ prog[k].pr.tag = "Match"

\* C2: in the DAG Dag::learn returns, along every start-to-finish path, any
\* choice of one denoted expression per edge concatenates, on the input of
\* every example, to exactly that example's output
C2_EveryPathConsistent ==
  pc = "learned" =>
    \A path \in PathsFrom(dag.start, dag.finish, Dag_edges(dag)),
       k \in 1..Len(paired) :
      PathVals(dag, path, graph, paired[k].input) = {Ran(paired[k].output)}

\* a DAG learned from two examples has a two-edge path with a substring set
\* that holds a graph node
C2_Witness ==
  /\ pc = "learned"
  /\ Len(paired) = 2
  /\ \E path \in PathsFrom(dag.start, dag.finish, Dag_edges(dag)) :
       /\ Len(path) = 2
       /\ \E k \in 1..Len(dag.substrings[path[1]]) :
            LET es == dag.substrings[path[1]][k]
            IN /\ es.tag = "SubstringSet"
               /\ \E p \in es.l : p.tag = "GraphNode"

\* C3: every expression generate_substring_set(id, l, r, graph) denotes
\* runs on the originating row and returns the characters of the column
\* between positions l and r
C3_SubstringSetDenotesSubstring ==
  (pc = "learn" /\ learned = 0) =>
    \A k \in 1..Len(AllRows) :
      \A l \in 1..Len(AllRows[k][1]), r \in 2..(Len(AllRows[k][1]) + 1) :
        l < r =>
          \A x \in denote(generate_substring_set(Id(k - 1, 0), l, r, graph), graph) :
            RunExpr(x, AllRows[k]) = Ran(SubStr(AllRows[k][1], l, r))

\* some substring set over a graph of two rows denotes an expression whose
\* two positions are token matches
C3_Witness ==
  /\ pc = "learn"
  /\ learned = 0
  /\ Len(AllRows) = 2
  /\ \E l \in 1..Len(AllRows[2][1]), r \in 2..(Len(AllRows[2][1]) + 1) :
       /\ l < r
       /\ \E x \in denote(generate_substring_set(Id(1, 0), l, r, graph), graph) :
            x.pl.tag = "Match" /\ x.pr.tag = "Match" /\ x.pl.tok.kind = "Literal"

\* C4: for an example with a non-empty output o of length n, Dag::new gives
\* start 0, finish n, exactly the edges (i, j) with 0 <= i < j <= n, the
\* n+1 nodes 0..n, and ConstantString(o[i..j]) in the list of every edge
C4_SingleExampleDag ==
  (learned >= 1 /\ paired[learned].output # <<>>) =>
    LET o == paired[learned].output
        n == Len(o)
    IN /\ last.start = 0
       /\ last.finish = n
       /\ Dag_edges(last) = {e \in (0..n) \X (0..n) : e[1] < e[2]}
       /\ Dag_nodes(last) = 0..n
       /\ Cardinality(Dag_nodes(last)) = n + 1
       /\ \A e \in Dag_edges(last) :
            \E k \in 1..Len(last.substrings[e]) :
              last.substrings[e][k] = ConstantString(SubSeq(o, e[1] + 1, e[2]))

\* the DAG of an output of length 2 was built, one of whose substrings occurs
\* in the input and another does not
C4_Witness ==
  /\ learned >= 1
  /\ Len(paired[learned].output) = 2
  /\ Len(last.substrings[<<0, 1>>]) > 1
  /\ Len(last.substrings[<<1, 2>>]) = 1

\* the candidates of edge e of d that top_ranked_expression discards
Discarded(d, e) ==
  {k \in 1..Len(d.substrings[e]) :
     Candidate(d.substrings[e][k], graph,
               IDG_rank_nodes(graph, IDG_distances(graph)), order).expr = {}}

\* the edges of d with a candidate that is kept
Usable(d) ==
  {e \in Dag_edges(d) : Discarded(d, e) # 1..Len(d.substrings[e])}

\* C5: top_ranked_expression returns None exactly when the finish is not
\* reachable from the start over the edges that have a valid candidate, and
\* those are the edges of best_by_edge
C5_NoneIffNoPath ==
  pc \in {"ranked", "done"} =>
    /\ DOMAIN best_by_edge = Usable(dag)
    /\ (result = {}) <=>
         (dag.finish \notin ReachableFrom({dag.start}, DOMAIN best_by_edge))

\* a program was returned over a DAG one of whose edges lost all of its
\* candidates
C5_Witness ==
  /\ pc = "ranked"
  /\ result # {}
  /\ Usable(dag) # Dag_edges(dag)
  /\ dag.start # dag.finish

\* C6: with one paired example of non-empty output, top_ranked_expression
\* returns a program, every edge has a best candidate and its score is at
\* least 1, whatever the unpaired rows
C6_OneExampleNeverFails ==
  (pc \in {"ranked", "done"} /\ Len(paired) = 1 /\ paired[1].output # <<>>) =>
    /\ result # {}
    /\ DOMAIN best_by_edge = Dag_edges(dag)
    /\ \A e \in Dag_edges(dag) : best_by_edge[e].score >= 1

\* one example with an unpaired row: the DAG has substring sets and every
\* one of them is discarded
C6_Witness ==
  /\ pc = "ranked"
  /\ Len(paired) = 1
  /\ paired[1].output # <<>>
  /\ unpaired # <<>>
  /\ \E e \in Dag_edges(dag) : Len(dag.substrings[e]) > 1
  /\ \A e \in Dag_edges(dag) : \A k \in 1..Len(dag.substrings[e]) :
       dag.substrings[e][k].tag = "SubstringSet" => k \in Discarded(dag, e)

\* C7: for an example of empty output Dag::new gives start = finish, no
\* edges and a single node, and synthesis on that example returns a program
\* that evaluates to the empty string on its input
C7_EmptyOutputSingleNode ==
  /\ (learned >= 1 /\ paired[learned].output = <<>>) =>
       /\ last.start = last.finish
       /\ Dag_edges(last) = {}
       /\ Cardinality(Dag_nodes(last)) = 1
  /\ (pc \in {"ranked", "done"} /\ Len(paired) = 1 /\ paired[1].output = <<>>) =>
       /\ result # {}
       /\ \A prog \in result : RunProgram(prog, paired[1].input) = Ran(<<>>)

\* the part of C7 that holds: start = finish, no edges, and a program that
\* evaluates to the empty string
C7_EmptyOutputSucceeds ==
  /\ (learned >= 1 /\ paired[learned].output = <<>>) =>
       /\ last.start = last.finish
       /\ Dag_edges(last) = {}
  /\ (pc \in {"ranked", "done"} /\ Len(paired) = 1 /\ paired[1].output = <<>>) =>
       /\ result # {}
       /\ \A prog \in result : RunProgram(prog, paired[1].input) = Ran(<<>>)

\* a run of the program learned from one example of empty output
C7_Witness ==
  /\ pc = "done"
  /\ Len(paired) = 1
  /\ paired[1].output = <<>>
  /\ paired[1].input # <<<<>>>>

\* the members of a list with their multiplicities
SeqBag(s) ==
  [x \in {s[k] : k \in DOMAIN s} |-> Cardinality({k \in DOMAIN s : s[k] = x})]

Swap(p) == <<p[2], p[1]>>

\* the nodes of a DAG, its start and finish included
DagNodesAll(d) == Dag_nodes(d) \cup {d.start, d.finish}

\* the pairs F rename the nodes of d1 to the nodes of d2 one to one, start to
\* start, finish to finish, edges to edges with the same members
IsoBy(d1, d2, F) ==
  /\ \A x \in F, y \in F : (x[1] = y[1]) <=> (x[2] = y[2])
  /\ DagNodesAll(d1) \subseteq {x[1] : x \in F}
  /\ DagNodesAll(d2) \subseteq {x[2] : x \in F}
  /\ <<d1.start, d2.start>> \in F
  /\ <<d1.finish, d2.finish>> \in F
  /\ \A x \in F, y \in F :
       /\ (<<x[1], y[1]>> \in Dag_edges(d1)) <=> (<<x[2], y[2]>> \in Dag_edges(d2))
       /\ <<x[1], y[1]>> \in Dag_edges(d1) =>
            SeqBag(d1.substrings[<<x[1], y[1]>>])
              = SeqBag(d2.substrings[<<x[2], y[2]>>])

\* the renaming of A.intersection(B) to B.intersection(A): the numbers the
\* two renumber tables give to (a, b) and (b, a)
CommRenaming ==
  {<<res.ab.renumber[p], res.ba.renumber[Swap(p)]>> :
     p \in {q \in DOMAIN res.ab.renumber : Swap(q) \in DOMAIN res.ba.renumber}}

\* the renaming of (A.B).C to A.(B.C): the numbers given to ((a, b), c) and
\* (a, (b, c))
AssocRenaming ==
  LET T1 == {<<p[1], p[2], q[2]>> :
               <<p, q>> \in {x \in (DOMAIN res.ab.renumber) \X (DOMAIN res.ab_c.renumber) :
                               x[2][1] = res.ab.renumber[x[1]]}}
      T2 == {<<q[1], p[1], p[2]>> :
               <<p, q>> \in {x \in (DOMAIN res.bc.renumber) \X (DOMAIN res.a_bc.renumber) :
                               x[2][2] = res.bc.renumber[x[1]]}}
  IN {<<res.ab_c.renumber[<<res.ab.renumber[<<t[1], t[2]>>], t[3]>>],
        res.a_bc.renumber[<<t[1], res.bc.renumber[<<t[2], t[3]>>]>>]>> :
        t \in T1 \cap T2}

\* C8: SubstringExpressionSet::intersection is commutative and associative,
\* and Dag::intersection is commutative and associative up to a one-to-one
\* renaming of nodes that keeps start, finish and the members of every edge
C8_IntersectionCommAssoc ==
  /\ pc = "exprs_done" =>
       /\ res.e12 = res.e21
       /\ res.e12_3 = res.e1_23
  /\ pc = "dags_done" =>
       /\ IsoBy(res.ab.dag, res.ba.dag, CommRenaming)
       /\ IsoBy(res.ab_c.dag, res.a_bc.dag, AssocRenaming)

\* three DAGs whose intersection has a path of two edges, numbered
\* differently by the two orders of the operands
C8_Witness ==
  /\ pc = "dags_done"
  /\ res.ab.dag # res.ba.dag
  /\ res.ab_c.dag # res.a_bc.dag
  /\ \E e \in Dag_edges(res.ab_c.dag), f \in Dag_edges(res.ab_c.dag) :
       /\ e[1] = res.ab_c.dag.start
       /\ e[2] = f[1]
       /\ f[2] = res.ab_c.dag.finish
       /\ \E k \in 1..Len(res.ab_c.dag.substrings[e]) :
            res.ab_c.dag.substrings[e][k].tag = "SubstringSet"

\* C9: the intersection of two constant strings is that string when they
\* are equal; of two substring sets of one column, the substring set of the
\* two intersections when neither is empty; anything else is None; a
\* returned substring set has no empty position set
C9_IntersectionExact ==
  pc = "exprs_done" =>
    LET e1 == args.e1
        e2 == args.e2
        both(tag) == e1.tag = tag /\ e2.tag = tag
    IN /\ (both("ConstantString") /\ e1.s = e2.s) => res.e12 = {ConstantString(e1.s)}
       /\ (both("ConstantString") /\ e1.s # e2.s) => res.e12 = {}
       /\ (both("SubstringSet") /\ e1.col = e2.col
             /\ e1.l \cap e2.l # {} /\ e1.r \cap e2.r # {}) =>
            res.e12 = {SubstringSet(e1.col, e1.l \cap e2.l, e1.r \cap e2.r)}
       /\ (both("SubstringSet")
             /\ (e1.col # e2.col \/ e1.l \cap e2.l = {} \/ e1.r \cap e2.r = {})) =>
            res.e12 = {}
       /\ e1.tag # e2.tag => res.e12 = {}
       /\ \A x \in res.e12 \cup res.e12_3 \cup res.e1_23 :
            x.tag = "SubstringSet" => (x.l # {} /\ x.r # {})

\* two substring sets of one column whose intersection is smaller than both
C9_Witness ==
  /\ pc = "exprs_done"
  /\ args.e1.tag = "SubstringSet"
  /\ args.e2.tag = "SubstringSet"
  /\ \E x \in res.e12 : x.l # args.e1.l /\ x.r # args.e2.r

\* the non-empty intersections of the members of two lists, first list major
NonEmptyIntersections(s1, s2) ==
  LET P == {p \in (1..Len(s1)) \X (1..Len(s2)) :
              ExprSet_intersection(s1[p[1]], s2[p[2]]) # {}}
      before(p, q) == p[1] < q[1] \/ (p[1] = q[1] /\ p[2] < q[2])
      nth(k) == CHOOSE p \in P : Cardinality({q \in P : before(q, p)}) = k - 1
  IN [k \in 1..Cardinality(P) |->
        CHOOSE x \in ExprSet_intersection(s1[nth(k)[1]], s2[nth(k)[2]]) : TRUE]

\* full is d1.intersection(d2): numbers are one to one, and the edge between
\* the numbers of (a1, a2) and (b1, b2) is there exactly when both edges are
\* and some pair of their members intersects, with those intersections
ProductOk(d1, d2, full) ==
  /\ \A p \in DOMAIN full.renumber, q \in DOMAIN full.renumber :
       full.renumber[p] = full.renumber[q] => p = q
  /\ \A e \in Dag_edges(full.dag) :
       \E p \in DOMAIN full.renumber, q \in DOMAIN full.renumber :
         e = <<full.renumber[p], full.renumber[q]>>
  /\ \A p \in DOMAIN full.renumber, q \in DOMAIN full.renumber :
       LET e1 == <<p[1], q[1]>>
           e2 == <<p[2], q[2]>>
           e == <<full.renumber[p], full.renumber[q]>>
           inter == IF e1 \in Dag_edges(d1) /\ e2 \in Dag_edges(d2)
                      THEN NonEmptyIntersections(d1.substrings[e1], d2.substrings[e2])
                    ELSE <<>>
       IN /\ (e \in Dag_edges(full.dag)) <=> (inter # <<>>)
          /\ e \in Dag_edges(full.dag) => full.dag.substrings[e] = inter

NonEmptyLists(d) == \A e \in Dag_edges(d) : d.substrings[e] # <<>>

\* C10: in every intersection the product edges are exactly the pairs of
\* edges with a non-empty pairwise intersection and carry exactly those
\* intersections, distinct pairs of nodes get distinct numbers, and every
\* edge of every DAG of Dag::new and of repeated intersection has a
\* non-empty list
C10_ProductEdges ==
  pc = "dags_done" =>
    /\ ProductOk(res.a, res.b, res.ab)
    /\ ProductOk(res.b, res.a, res.ba)
    /\ ProductOk(res.b, res.c, res.bc)
    /\ ProductOk(res.ab.dag, res.c, res.ab_c)
    /\ ProductOk(res.a, res.bc.dag, res.a_bc)
    /\ \A d \in {res.a, res.b, res.c, res.ab.dag, res.ba.dag, res.bc.dag,
                 res.ab_c.dag, res.a_bc.dag} : NonEmptyLists(d)

\* an intersection that drops a pair of edges and keeps another with two
\* members, followed by a second intersection that keeps an edge
C10_Witness ==
  /\ pc = "dags_done"
  /\ Cardinality(Dag_edges(res.ab.dag))
       < Cardinality(Dag_edges(res.a)) * Cardinality(Dag_edges(res.b))
  /\ \E e \in Dag_edges(res.ab.dag) : Len(res.ab.dag.substrings[e]) >= 2
  /\ Dag_edges(res.ab_c.dag) # {}

\* the cells of the table the graph was built from
CellIds == {Id(k - 1, 0) : k \in 1..Len(AllRows)}

\* the index of a member of a position set in cell id
PosSetIndex(p, id) ==
  IF p.tag = "ConstantPosition" THEN p.v ELSE graph.labels[p.v][id]

\* the left and right positions top_ranked_expression chooses for a
\* substring set, under the iteration order it met
Chosen(es, ranks) ==
  [l |-> MaxByKey(es.l, ranks, order), r |-> MaxByKey(es.r, ranks, order)]

\* the chosen positions of es are not strictly increasing in some cell
NonPositive(es, ranks) ==
  /\ es.tag = "SubstringSet"
  /\ LET c == Chosen(es, ranks)
     IN \E id \in CellIds : PosSetIndex(c.r, id) - PosSetIndex(c.l, id) <= 0

\* the index a position of a program denotes in the string s, as a set
PosIndex(p, s) == IF p.tag = "ConstantPosition" THEN {p.k} ELSE EvalPosition(p, s)

\* C11: a substring set whose chosen positions have a non-positive
\* difference in some cell of the graph is discarded and is not the origin of
\* the edge's best expression; and every Substring of a returned program
\* with a token-match position has, on every row of the table, a right index
\* strictly greater than its left index
C11_NonPositiveDiscarded ==
  pc \in {"ranked", "done"} =>
    \E ranks \in {IDG_rank_nodes(graph, IDG_distances(graph))} :
      /\ \A e \in Dag_edges(dag) : \A k \in 1..Len(dag.substrings[e]) :
           NonPositive(dag.substrings[e][k], ranks) =>
             /\ Candidate(dag.substrings[e][k], graph, ranks, order).expr = {}
             /\ e \in DOMAIN best_by_edge =>
                  \E j \in 1..Len(dag.substrings[e]) :
                    /\ ~NonPositive(dag.substrings[e][j], ranks)
                    /\ Candidate(dag.substrings[e][j], graph, ranks, order).expr
                         = {best_by_edge[e].expr}
      /\ \A prog \in result : \A k \in 1..Len(prog) :
           (prog[k].tag = "Substring"
              /\ (prog[k].pl.tag = "Match" \/ prog[k].pr.tag = "Match")) =>
             \A n \in 1..Len(AllRows) :
               LET s == AllRows[n][prog[k].col + 1]
               IN /\ PosIndex(prog[k].pl, s) # {}
                  /\ PosIndex(prog[k].pr, s) # {}
                  /\ \A l \in PosIndex(prog[k].pl, s), r \in PosIndex(prog[k].pr, s) :
                       r - l > 0

\* a program with a token-match position was returned over a DAG with a
\* substring set that was discarded for a non-positive difference, on an edge
\* that still has a best expression
C11_Witness ==
  /\ pc = "ranked"
  /\ unpaired # <<>>
  /\ \E prog \in result : \E k \in 1..Len(prog) :
       prog[k].tag = "Substring" /\ prog[k].pr.tag = "Match"
  /\ \E ranks \in {IDG_rank_nodes(graph, IDG_distances(graph))} :
       \E e \in DOMAIN best_by_edge : \E k \in 1..Len(dag.substrings[e]) :
         NonPositive(dag.substrings[e][k], ranks)

\* the sum over the cells of the graph of right index - left index of the
\* chosen positions of a substring set
SumDiff(es, ranks) ==
  LET c == Chosen(es, ranks)
  IN SumOver(CellIds, [id \in CellIds |->
                         PosSetIndex(c.r, id) - PosSetIndex(c.l, id)])

\* the candidates of edge e that are not discarded
ValidCands(e, ranks) ==
  {k \in 1..Len(dag.substrings[e]) :
     \/ dag.substrings[e][k].tag = "ConstantString"
     \/ ~NonPositive(dag.substrings[e][k], ranks)}

\* rows^2 times the score of a candidate, len being the arithmetic mean
\* sum / rows of the differences
MeanScoreScaled(es, ranks) ==
  IF es.tag = "ConstantString"
    THEN Len(es.s) * Len(es.s) * EPSILON * Cardinality(CellIds) * Cardinality(CellIds)
  ELSE SumDiff(es, ranks) * SumDiff(es, ranks) * KAPPA

\* the score of a candidate, len being the mean truncated to an integer
TruncScore(es, ranks) ==
  IF es.tag = "ConstantString" THEN Len(es.s) * Len(es.s) * EPSILON
  ELSE LET len == SumDiff(es, ranks) \div Cardinality(CellIds)
       IN len * len * KAPPA

\* C12: an edge is in best_by_edge exactly when it has a valid candidate, and
\* its entry is a valid candidate whose score is the greatest score of the
\* edge's valid candidates, a constant string scoring |s|^2 * EPSILON and a
\* substring set len^2 * KAPPA with len the arithmetic mean over the rows of
\* the differences of its chosen positions
C12_BestScoreMaximal ==
  pc \in {"ranked", "done"} =>
    \E ranks \in {IDG_rank_nodes(graph, IDG_distances(graph))},
       n2 \in {Cardinality(CellIds) * Cardinality(CellIds)} :
      \A e \in Dag_edges(dag) :
        \E valid \in {ValidCands(e, ranks)} :
          /\ (e \in DOMAIN best_by_edge) <=> (valid # {})
          /\ valid # {} =>
               /\ \E k \in valid :
                    /\ Candidate(dag.substrings[e][k], graph, ranks, order).expr
                         = {best_by_edge[e].expr}
                    /\ MeanScoreScaled(dag.substrings[e][k], ranks)
                         = best_by_edge[e].score * n2
               /\ \A j \in valid :
                    MeanScoreScaled(dag.substrings[e][j], ranks)
                      <= best_by_edge[e].score * n2

\* the part of C12 that holds: the same with len the mean truncated to an
\* integer, as the unsigned division sum / rows computes it
C12_BestScoreTruncatedMean ==
  pc \in {"ranked", "done"} =>
    \E ranks \in {IDG_rank_nodes(graph, IDG_distances(graph))} :
      \A e \in Dag_edges(dag) :
        \E valid \in {ValidCands(e, ranks)} :
          /\ (e \in DOMAIN best_by_edge) <=> (valid # {})
          /\ valid # {} =>
               /\ \E k \in valid :
                    /\ Candidate(dag.substrings[e][k], graph, ranks, order).expr
                         = {best_by_edge[e].expr}
                    /\ TruncScore(dag.substrings[e][k], ranks) = best_by_edge[e].score
               /\ \A j \in valid :
                    TruncScore(dag.substrings[e][j], ranks) <= best_by_edge[e].score

\* an edge whose best is a substring set that beat a constant string, over a
\* graph of three rows, with another edge that has no valid candidate
C12_Witness ==
  /\ pc = "ranked"
  /\ Len(AllRows) = 3
  /\ Dag_edges(dag) # DOMAIN best_by_edge
  /\ \E e \in DOMAIN best_by_edge :
       /\ best_by_edge[e].expr.tag = "Substring"
       /\ best_by_edge[e].score >= 4 * KAPPA

\* the start-to-finish paths over the edges of best_by_edge, as sequences of
\* edges; a path takes at most one edge per character of an output
UsablePaths ==
  {p \in UNION {[1..n -> DOMAIN best_by_edge] : n \in 0..MaxOut} :
     /\ (IF p = <<>> THEN dag.start = dag.finish
         ELSE p[1][1] = dag.start /\ p[Len(p)][2] = dag.finish)
     /\ \A k \in 1..(Len(p) - 1) : p[k][2] = p[k + 1][1]}

\* the sum of the best scores of the edges of a path
TotalScore(p) ==
  SumOver(DOMAIN p, [k \in DOMAIN p |-> best_by_edge[p[k]].score])

\* C13: a returned program is the concatenation, from start to finish, of
\* the best expressions along a path over the edges of best_by_edge, and no
\* such path has a greater sum of best scores
C13_MaxScorePath ==
  pc \in {"ranked", "done"} =>
    \E paths \in {UsablePaths} :
      \A prog \in result :
        \E p \in paths :
          /\ prog = [k \in 1..Len(p) |-> best_by_edge[p[k]].expr]
          /\ \A q \in paths : TotalScore(q) <= TotalScore(p)

\* a program of two expressions was returned although a path of a different
\* total score exists
C13_Witness ==
  /\ pc = "ranked"
  /\ \E prog \in result : Len(prog) = 2 /\ prog[1] # prog[2]
  /\ \E p \in UsablePaths, q \in UsablePaths : TotalScore(p) < TotalScore(q)

\* the substring expression sets on the edges of d
MembersOf(d) ==
  UNION {{d.substrings[e][k] : k \in 1..Len(d.substrings[e])} :
           e \in Dag_edges(d)}

\* the graph nodes in the position sets of the edges of d
NodesOfDag(d) ==
  {p.v : p \in {q \in UNION {es.l \cup es.r :
                               es \in {x \in MembersOf(d) : x.tag = "SubstringSet"}} :
                  q.tag = "GraphNode"}}

\* the (token, occurrence) pairs on the edges of the graph into v and out of v
InTokens(v) ==
  UNION {graph.tokens[e] : e \in {f \in DOMAIN graph.tokens : f[2] = v}}

OutTokens(v) ==
  UNION {graph.tokens[e] : e \in {f \in DOMAIN graph.tokens : f[1] = v}}

\* sampling v gives the End of a token of an in-edge when there is one,
\* otherwise the Start of a token of an out-edge, and the position evaluates
\* on every row to the label of v in that row
SampleOk(v, ord) ==
  \E s \in {Sample(GraphNode(v), graph, ord)} :
    /\ s.tag = "Match"
    /\ IF InTokens(v) # {}
         THEN s.dir = "End" /\ <<s.tok, s.occ>> \in InTokens(v)
       ELSE s.dir = "Start" /\ <<s.tok, s.occ>> \in OutTokens(v)
    /\ \A n \in 1..Len(AllRows) :
         EvalPosition(s, AllRows[n][1]) = {graph.labels[v][Id(n - 1, 0)]}

\* C14: every graph node in a position set of an edge of a DAG of Dag::new
\* or of an intersection has an incident graph edge with a token, so sampling
\* never aborts: it returns the End of an in-edge's token when there is an
\* in-edge and otherwise the Start of an out-edge's token, and the returned
\* position evaluates on every row to the node's label in that row
C14_SampleNeverAborts ==
  /\ learned >= 1 =>
       \A v \in NodesOfDag(dag) \cup NodesOfDag(last) \cup NodesOfDag(prev) :
         /\ v \in DOMAIN graph.labels
         /\ InTokens(v) \cup OutTokens(v) # {}
         /\ \A ord \in Orders : SampleOk(v, ord)
  /\ pc \in {"ranked", "done"} =>
       /\ \A e \in DOMAIN best_by_edge :
            best_by_edge[e].expr.tag = "Substring" =>
              /\ best_by_edge[e].expr.pl.tag # "Panic"
              /\ best_by_edge[e].expr.pr.tag # "Panic"

\* a program was returned whose left position was sampled from an out-edge,
\* over a DAG learned from two examples
C14_Witness ==
  /\ pc = "ranked"
  /\ learned = 2
  /\ \E v \in NodesOfDag(dag) : InTokens(v) = {}
  /\ \E prog \in result : \E k \in 1..Len(prog) :
       /\ prog[k].tag = "Substring"
       /\ prog[k].pl.tag = "Match"
       /\ prog[k].pl.dir = "Start"

\* the constant positions of a position set
ConstantsOf(ps) == {p \in ps : p.tag = "ConstantPosition"}

\* at most one constant on each side, the left one below the right one
ConstantsOrdered(es) ==
  /\ Cardinality(ConstantsOf(es.l)) <= 1
  /\ Cardinality(ConstantsOf(es.r)) <= 1
  /\ \A a \in ConstantsOf(es.l), b \in ConstantsOf(es.r) : a.v < b.v

\* C15: every substring set of a DAG of Dag::new or of an intersection has
\* at most one constant position on the left and at most one on the right,
\* the left one strictly smaller; so when both chosen positions are
\* constants the unsigned subtraction k2 - k1 does not underflow and the
\* length is at least 1
C15_ConstantsNoUnderflow ==
  /\ learned >= 1 =>
       \A es \in MembersOf(dag) \cup MembersOf(last) \cup MembersOf(prev) :
         es.tag = "SubstringSet" => ConstantsOrdered(es)
  /\ pc \in {"ranked", "done"} =>
       \A es \in MembersOf(dag) :
         es.tag = "SubstringSet" =>
           \A k1 \in ConstantsOf(es.l), k2 \in ConstantsOf(es.r) :
             /\ LenBad(k1, k2, graph).len >= 1
             /\ ~LenBad(k1, k2, graph).bad

\* the best expression of an edge of a DAG learned from two examples is a
\* substring between two constant positions, over a set that also holds
\* graph nodes
C15_Witness ==
  /\ pc = "ranked"
  /\ learned = 2
  /\ \E e \in DOMAIN best_by_edge :
       /\ best_by_edge[e].expr.tag = "Substring"
       /\ best_by_edge[e].expr.pl.tag = "ConstantPosition"
       /\ best_by_edge[e].expr.pr.tag = "ConstantPosition"
       /\ best_by_edge[e].expr.pr.k - best_by_edge[e].expr.pl.k >= 1
       /\ \E k \in 1..Len(dag.substrings[e]) :
            /\ dag.substrings[e][k].tag = "SubstringSet"
            /\ Cardinality(dag.substrings[e][k].l) >= 2
=============================================================================
